---- MODULE Spec2Model ----
(***************************************************************************)
(* The cart state machine of hydrogen's CartProvider                       *)
(* (packages/hydrogen/src/components/CartProvider/CartProvider.client.tsx) *)
(*                                                                         *)
(* Two specifications share this module:                                   *)
(*   ReducerSpec  applies the pure function cartReducer once to each pair  *)
(*                of a state of the State union and an action;             *)
(*   Spec         is the provider: the reducer state, the rendered context *)
(*                value, the remote calls in flight, local storage and the *)
(*                didFetchCart ref, driven by calls of the context's       *)
(*                functions, remote responses and renders.                 *)
(***************************************************************************)
EXTENDS Integers, Sequences, FiniteSets

VARIABLES
    state,        \* the reducer state held by useReducer (line 258)
    ctx,          \* the state captured by the last rendered cartContextValue
    inflight,     \* remote calls awaiting their response
    storage,      \* localStorage[CART_ID_STORAGE_KEY]
    didFetchCart, \* the useRef of line 582
    effectPending, \* the effect of lines 584-593 is scheduled and has not run
    lastOp,       \* the handler that ran in the last step and what it did
    rin,          \* ReducerSpec: the state argument of the application
    ract,         \* ReducerSpec: the action argument of the application
    rout          \* ReducerSpec: the outcome of the application

vars == <<state, ctx, inflight, storage, didFetchCart, effectPending, lastOp,
          rin, ract, rout>>

provVars == <<state, ctx, inflight, storage, didFetchCart, effectPending, lastOp>>
redVars == <<rin, ract, rout>>

----------------------------------------------------------------------------
(* Bounds *)

MaxLines == 2        \* lines of a cart given to the reducer
MaxArgLen == 2       \* length of the lines argument of remove / update
MaxInFlight == 2     \* calls of the context's functions awaiting a response
MaxServerLines == 1  \* provider: lines of a cart the remote API returns,
                     \* and length of the lines argument of a call

----------------------------------------------------------------------------
(* Values *)

Undefined == "undefined"
Null == "null"
UndefQty == -1       \* an absent quantity of a CartLineUpdateInput

\* Representative values of the opaque data: ids, quantities, errors, notes.
LineIds == {1, 2}
Quantities == {1, 2}
CartIds == {1, 2}
Errors == {<<"error", 1>>, <<"error", 2>>}
Notes == {Null, "note"}

\* The values the remote API returns in the provider's runs.
ServerLineIds == {1}
ServerCartIds == {1}
ServerErrors == {<<"error", 1>>}

SeqsUpTo(S, n) == UNION {[1..k -> S] : k \in 0..n}

Line == [id : LineIds, quantity : Quantities]

\* A cart as the Storefront API returns it (CartFragmentFragment): the lines
\* are a connection (edges of nodes) and an absent note is null.
Connections(lines) ==
    {[edges |-> [i \in DOMAIN s |-> [node |-> s[i]]]] : s \in lines}

Fragments(n) ==
    [id : CartIds, lines : Connections(SeqsUpTo(Line, n)), note : Notes]

\* The carts the remote API returns in the provider's runs.
ServerFragments ==
    [id : ServerCartIds,
     lines : Connections(SeqsUpTo([id : ServerLineIds, quantity : {1}],
                                  MaxServerLines)),
     note : {Null}]

flattenConnection(connection) ==
    [i \in DOMAIN connection.edges |-> connection.edges[i].node]

cartFromGraphQL(cart) ==
    [id |-> cart.id,
     lines |-> flattenConnection(cart.lines),
     note |-> IF cart.note = Null THEN Undefined ELSE cart.note]

Carts(n) == {cartFromGraphQL(f) : f \in Fragments(n)}

Statuses == {"uninitialized", "fetching", "creating", "idle", "updating"}

MutationTypes ==
    {"addLineItem", "removeLineItem", "updateLineItem", "noteUpdate",
     "buyerIdentityUpdate", "cartAttributesUpdate", "discountCodesUpdate"}

ActionTypes ==
    {"cartFetch", "cartCreate", "resolve", "reject", "resetCart"} \cup MutationTypes


\* The CartAction union over carts of at most n lines, in three families
\* (the payload of removeLineItem is a list of ids, that of updateLineItem a
\* list of CartLineUpdateInput).
RemoveActionsOf(ids, n) ==
    {[type |-> "removeLineItem", lines |-> l] : l \in SeqsUpTo(ids, n)}

UpdateActionsOf(ids, n) ==
    {[type |-> "updateLineItem", lines |-> l] :
        l \in SeqsUpTo([id : ids, quantity : Quantities \cup {0, UndefQty}], n)}

\* The five mutating actions without a payload.
PlainMutationActions ==
    {[type |-> t] : t \in MutationTypes \ {"removeLineItem", "updateLineItem"}}

RemoveActions == RemoveActionsOf(LineIds, MaxArgLen)
UpdateActions == UpdateActionsOf(LineIds, MaxArgLen)

OtherActions(n) ==
    {[type |-> t] : t \in {"cartFetch", "cartCreate", "resetCart", "addLineItem",
                           "noteUpdate", "buyerIdentityUpdate",
                           "cartAttributesUpdate", "discountCodesUpdate"}}
    \cup {[type |-> "resolve", cart |-> c] : c \in Carts(n)}
    \cup {[type |-> "reject", error |-> e] : e \in Errors}

\* ReducerSpec before its application: no action, no outcome.
NoAction == [type |-> "none"]
NoOutcome == [none |-> TRUE]

\* The states of the State union without a lastValidCart, over carts of at
\* most n lines.
SettledStates(n) ==
    {[status |-> "uninitialized"], [status |-> "fetching"], [status |-> "creating"]}
    \cup {[status |-> "uninitialized", error |-> e] : e \in Errors}
    \cup {[status |-> "idle", cart |-> c] : c \in Carts(n)}
    \cup {[status |-> "idle", cart |-> c, error |-> e] : c \in Carts(n), e \in Errors}

----------------------------------------------------------------------------
(* cartReducer, lines 68-207 *)

\* A case of the switch that ends in `break`.
Break == [break |-> TRUE]

\* Mutant: the message leaves out the current status.
InvalidTransition_omitsStatus(state_, action) ==
    [throws |-> <<"Cannot dispatch event (", action.type, ")">>]

\* The Error thrown at lines 204-206; the message names action.type and
\* state.status.
InvalidTransition(state_, action) ==
    [throws |-> <<"Cannot dispatch event (", action.type,
                  ") for current cart state (", state_.status, ")">>]

Threw(outcome) == "throws" \in DOMAIN outcome

Includes(seq, x) == \E i \in DOMAIN seq : seq[i] = x

\* Mutant: the filter keeps the lines it should drop.
RECURSIVE Filter_keepsIncluded(_, _)
Filter_keepsIncluded(seq, lines) ==
    IF seq = <<>> THEN <<>>
    ELSE IF Includes(lines, Head(seq).id)
         THEN <<Head(seq)>> \o Filter_keepsIncluded(Tail(seq), lines)
         ELSE Filter_keepsIncluded(Tail(seq), lines)

\* Array.prototype.filter
RECURSIVE Filter(_, _)
Filter(seq, lines) ==
    IF seq = <<>> THEN <<>>
    ELSE IF ~Includes(lines, Head(seq).id)
         THEN <<Head(seq)>> \o Filter(Tail(seq), lines)
         ELSE Filter(Tail(seq), lines)

\* Mutant: the last element that matches.
Find_last(lines, id) ==
    IF \E i \in DOMAIN lines : lines[i].id = id
    THEN lines[CHOOSE i \in DOMAIN lines :
                 /\ lines[i].id = id
                 /\ \A j \in DOMAIN lines : lines[j].id = id => i >= j]
    ELSE [id |-> 0, quantity |-> UndefQty]

\* Array.prototype.find: the first element that matches, or undefined.
Find(lines, id) ==
    IF \E i \in DOMAIN lines : lines[i].id = id
    THEN lines[CHOOSE i \in DOMAIN lines :
                 /\ lines[i].id = id
                 /\ \A j \in DOMAIN lines : lines[j].id = id => i <= j]
    ELSE [id |-> 0, quantity |-> UndefQty]

Found(updatedLine) == updatedLine.id # 0

\* JavaScript truthiness of a quantity: undefined and 0 are falsy.
Truthy(quantity) == quantity # UndefQty /\ quantity # 0

case_cartFetch(state_, action) ==
    IF state_.status = "uninitialized" THEN [status |-> "fetching"] ELSE Break

\* Mutant: cartCreate is refused once an error is attached.
case_cartCreate_noError(state_, action) ==
    IF state_.status = "uninitialized" /\ "error" \notin DOMAIN state_
    THEN [status |-> "creating"]
    ELSE Break

case_cartCreate(state_, action) ==
    IF state_.status = "uninitialized" THEN [status |-> "creating"] ELSE Break

\* Mutant: resolve is accepted in every status.
resolvableStatuses_all == Statuses

resolvableStatuses == {"updating", "fetching", "creating"}

\* Mutant: a resolve in status updating keeps the optimistic cart.
case_resolve_keepsOptimistic(state_, action) ==
    IF state_.status \in resolvableStatuses
    THEN [status |-> "idle",
          cart |-> IF state_.status = "updating" THEN state_.cart ELSE action.cart]
    ELSE Break

case_resolve(state_, action) ==
    IF state_.status \in resolvableStatuses
    THEN [status |-> "idle", cart |-> action.cart]
    ELSE Break

\* Mutant: a reject in status updating keeps the optimistic cart.
case_reject_keepsCart(state_, action) ==
    IF state_.status = "fetching" \/ state_.status = "creating"
    THEN [status |-> "uninitialized", error |-> action.error]
    ELSE IF state_.status = "updating"
         THEN [status |-> "idle", cart |-> state_.cart, error |-> action.error]
         ELSE Break

\* Mutant: a reject in status updating leaves lastValidCart attached.
case_reject_keepsLastValid(state_, action) ==
    IF state_.status = "fetching" \/ state_.status = "creating"
    THEN [status |-> "uninitialized", error |-> action.error]
    ELSE IF state_.status = "updating"
         THEN [status |-> "idle", cart |-> state_.lastValidCart,
               lastValidCart |-> state_.lastValidCart, error |-> action.error]
         ELSE Break

case_reject(state_, action) ==
    IF state_.status = "fetching" \/ state_.status = "creating"
    THEN [status |-> "uninitialized", error |-> action.error]
    ELSE IF state_.status = "updating"
         THEN [status |-> "idle", cart |-> state_.lastValidCart, error |-> action.error]
         ELSE Break

\* Mutant: resetCart is accepted in status creating too.
case_resetCart_anyTransient(state_, action) ==
    IF state_.status = "fetching" \/ state_.status = "creating"
    THEN [status |-> "uninitialized"]
    ELSE Break

case_resetCart(state_, action) ==
    IF state_.status = "fetching" THEN [status |-> "uninitialized"] ELSE Break

\* Mutant: the error of the idle state survives the start of a mutation.
case_noOptimisticUpdate_keepsError(state_, action) ==
    IF state_.status = "idle"
    THEN IF "error" \in DOMAIN state_
         THEN [status |-> "updating", cart |-> state_.cart,
               lastValidCart |-> state_.cart, error |-> state_.error]
         ELSE [status |-> "updating", cart |-> state_.cart,
               lastValidCart |-> state_.cart]
    ELSE Break

\* Mutant: the displayed cart is emptied while the mutation is in flight.
case_noOptimisticUpdate_emptiesCart(state_, action) ==
    IF state_.status = "idle"
    THEN [status |-> "updating",
          cart |-> [state_.cart EXCEPT !.lines = <<>>],
          lastValidCart |-> state_.cart]
    ELSE Break

\* addLineItem, noteUpdate, buyerIdentityUpdate, cartAttributesUpdate and
\* discountCodesUpdate share one body.
case_noOptimisticUpdate(state_, action) ==
    IF state_.status = "idle"
    THEN [status |-> "updating", cart |-> state_.cart, lastValidCart |-> state_.cart]
    ELSE Break

\* Mutant: lastValidCart is taken after the optimistic removal.
case_removeLineItem_lastValidFiltered(state_, action) ==
    IF state_.status = "idle"
    THEN LET cart == [state_.cart EXCEPT
                        !.lines = Filter(state_.cart.lines, action.lines)]
         IN [status |-> "updating", cart |-> cart, lastValidCart |-> cart]
    ELSE Break

case_removeLineItem(state_, action) ==
    IF state_.status = "idle"
    THEN [status |-> "updating",
          cart |-> [state_.cart EXCEPT !.lines = Filter(state_.cart.lines, action.lines)],
          lastValidCart |-> state_.cart]
    ELSE Break

updateLine(line, lines) ==
    LET updatedLine == Find(lines, line.id)
    IN IF Found(updatedLine) /\ Truthy(updatedLine.quantity)
       THEN [line EXCEPT !.quantity = updatedLine.quantity]
       ELSE line

case_updateLineItem(state_, action) ==
    IF state_.status = "idle"
    THEN [status |-> "updating",
          cart |-> [state_.cart EXCEPT
                      !.lines = [i \in DOMAIN state_.cart.lines |->
                                   updateLine(state_.cart.lines[i], action.lines)]],
          lastValidCart |-> state_.cart]
    ELSE Break

switch(state_, action) ==
    CASE action.type = "cartFetch" -> case_cartFetch(state_, action)
      [] action.type = "cartCreate" -> case_cartCreate(state_, action)
      [] action.type = "resolve" -> case_resolve(state_, action)
      [] action.type = "reject" -> case_reject(state_, action)
      [] action.type = "resetCart" -> case_resetCart(state_, action)
      [] action.type = "removeLineItem" -> case_removeLineItem(state_, action)
      [] action.type = "updateLineItem" -> case_updateLineItem(state_, action)
      [] action.type \in {"addLineItem", "noteUpdate", "buyerIdentityUpdate",
                          "cartAttributesUpdate", "discountCodesUpdate"}
           -> case_noOptimisticUpdate(state_, action)
      [] OTHER -> Break

cartReducer(state_, action) ==
    LET next == switch(state_, action)
    IN IF next = Break THEN InvalidTransition(state_, action) ELSE next

----------------------------------------------------------------------------
(* dispatch and the handlers of CartProvider, lines 218-649 *)

NoItem == 0                  \* localStorage.getItem returns null
NoError == <<"error", 0>>    \* the response's error is undefined
NoFragment == [id |-> 0]     \* the response's data carries no cart

HasCart(response) == response.cart # NoFragment

\* What a remote call resolves to: {data, error}, each possibly absent.
Responses ==
    [error : ServerErrors \cup {NoError},
     cart : ServerFragments \cup {NoFragment}]

\* dispatch (line 258): the reducer is applied to the current state; an
\* action it rejects raises its Error and leaves the state as it was.
\* React's dispatch does not throw into its caller, so the handler goes on.
dispatch(run, action) ==
    LET outcome == cartReducer(run.state, action)
    IN IF Threw(outcome)
       THEN [state |-> run.state,
             dispatched |-> Append(run.dispatched, action.type),
             path |-> Append(run.path, run.state.status),
             thrown |-> Append(run.thrown, outcome.throws)]
       ELSE [state |-> outcome,
             dispatched |-> Append(run.dispatched, action.type),
             path |-> Append(run.path, outcome.status),
             thrown |-> run.thrown]

\* A handler's run: the state its dispatches have made so far, the action
\* types it dispatched, the statuses the state went through, the errors thrown.
Begin(state_) ==
    [state |-> state_, dispatched |-> <<>>, path |-> <<state_.status>>,
     thrown |-> <<>>]

\* `if (error) dispatch reject`, lines 301-306, 340-345, ...
rejectIfError(run, response) ==
    IF response.error # NoError
    THEN dispatch(run, [type |-> "reject", error |-> response.error])
    ELSE run

\* `if (data?.x?.cart) dispatch resolve`, lines 308-312, 347-352, ...
resolveIfCart(run, response) ==
    IF HasCart(response)
    THEN dispatch(run, [type |-> "resolve", cart |-> cartFromGraphQL(response.cart)])
    ELSE run

\* A call in flight is recorded by the continuation that awaits the
\* response: cartFetch's, cartCreate's, or the one the seven mutation
\* wrappers share (lines 340-352, 377-389, ..., 564-576 are the same code).
OpKinds == {"cartFetch", "cartCreate", "mutation"}

\* The callback prop each operation invokes.
callbackOf(kind) ==
    CASE kind = "cartCreate" -> "onCreate"
      [] kind = "addLineItem" -> "onLineAdd"
      [] kind = "removeLineItem" -> "onLineRemove"
      [] kind = "updateLineItem" -> "onLineUpdate"
      [] kind = "noteUpdate" -> "onNoteUpdate"
      [] kind = "buyerIdentityUpdate" -> "onBuyerIdentityUpdate"
      [] kind = "cartAttributesUpdate" -> "onAttributesUpdate"
      [] kind = "discountCodesUpdate" -> "onDiscountCodesUpdate"
      [] OTHER -> "none"

RECURSIVE Sum(_, _)
Sum(f, S) == IF S = {} THEN 0 ELSE LET x == CHOOSE y \in S : TRUE
                                   IN f[x] + Sum(f, S \ {x})

\* Calls made through the context value that await their response.
UserCallsInFlight == Sum(inflight, OpKinds \ {"cartFetch"})

Rendered == ctx.status # "unrendered"

\* The record of a step: the handler, the part of the response it saw, the
\* actions it dispatched, the statuses it went through, the errors the
\* reducer threw, the callback prop it invoked.
Op(op, kind, response, run, callback) ==
    [op |-> op, kind |-> kind,
     error |-> response.error, cartId |-> response.cart.id,
     dispatched |-> run.dispatched, path |-> run.path, thrown |-> run.thrown,
     callback |-> callback]

NoResponse == [error |-> NoError, cart |-> NoFragment]

\* initialStatus, lines 255-257: idle with the cart prop, else uninitialized.
initialStatus(cart) ==
    IF cart # NoFragment
    THEN [status |-> "idle", cart |-> cartFromGraphQL(cart)]
    ELSE [status |-> "uninitialized"]

Init ==
    /\ \E cart \in ServerFragments \cup {NoFragment} :
          state = initialStatus(cart)
    /\ ctx = [status |-> "unrendered"]
    /\ inflight = [k \in OpKinds |-> 0]
    /\ storage \in ServerCartIds \cup {NoItem}
    /\ didFetchCart = FALSE
    /\ effectPending = FALSE
    /\ lastOp = Op("none", "none", NoResponse, Begin(state), "none")
    /\ rin = [status |-> "uninitialized"]
    /\ ract = NoAction
    /\ rout = NoOutcome

\* A render of the provider: cartContextValue captures the state
\* (useMemo, lines 595-642) and the effect is scheduled (its dependency
\* `state` changed).
Render ==
    /\ ctx # state
    /\ ctx' = state
    /\ effectPending' = TRUE
    /\ lastOp' = Op("render", "none", NoResponse, Begin(state), "none")
    /\ UNCHANGED <<state, inflight, storage, didFetchCart, redVars>>

\* cartFetch up to its await, lines 265-271.
cartFetchStart(run) == dispatch(run, [type |-> "cartFetch"])

\* Mutant: the effect does not look at the didFetchCart ref.
shouldFetchCart_ignoresRef(item, state_, didFetch) ==
    item # NoItem /\ state_.status = "uninitialized"

\* The test of the effect, lines 585-589, on the stored cart id, the state of
\* the render and the didFetchCart ref.
shouldFetchCart(item, state_, didFetch) ==
    item # NoItem /\ state_.status = "uninitialized" /\ ~didFetch

\* The effect of lines 584-593; `state` in it is the rendered state.
Effect ==
    /\ effectPending
    /\ effectPending' = FALSE
    /\ IF shouldFetchCart(storage, ctx, didFetchCart)
       THEN LET run == cartFetchStart(Begin(state))
            IN /\ didFetchCart' = TRUE
               /\ state' = run.state
               /\ inflight' = [inflight EXCEPT !["cartFetch"] = @ + 1]
               /\ lastOp' = Op("effect", "cartFetch", NoResponse, run, "none")
       ELSE /\ lastOp' = Op("effect", "none", NoResponse, Begin(state), "none")
            /\ UNCHANGED <<state, inflight, didFetchCart>>
    /\ UNCHANGED <<ctx, storage, redVars>>

\* cartFetch after its await, lines 273-279.
cartFetchResponse(response) ==
    /\ inflight["cartFetch"] > 0
    /\ inflight' = [inflight EXCEPT !["cartFetch"] = @ - 1]
    /\ LET run == IF ~HasCart(response)
                  THEN dispatch(Begin(state), [type |-> "resetCart"])
                  ELSE resolveIfCart(Begin(state), response)
       IN /\ state' = run.state
          /\ storage' = IF ~HasCart(response) THEN NoItem ELSE storage
          /\ lastOp' = Op("response", "cartFetch", response, run, "none")
    /\ UNCHANGED <<ctx, didFetchCart, effectPending, redVars>>

\* cartCreate up to its await, lines 285-299; called through the context
\* value (line 606).
cartCreateCall ==
    /\ Rendered
    /\ UserCallsInFlight < MaxInFlight
    /\ LET run == dispatch(Begin(state), [type |-> "cartCreate"])
       IN /\ state' = run.state
          /\ lastOp' = Op("call", "cartCreate", NoResponse, run, callbackOf("cartCreate"))
    /\ inflight' = [inflight EXCEPT !["cartCreate"] = @ + 1]
    /\ UNCHANGED <<ctx, storage, didFetchCart, effectPending, redVars>>

\* cartCreate after its await, lines 301-318.
cartCreateResponse(response) ==
    /\ inflight["cartCreate"] > 0
    /\ inflight' = [inflight EXCEPT !["cartCreate"] = @ - 1]
    /\ LET run == resolveIfCart(rejectIfError(Begin(state), response), response)
       IN /\ state' = run.state
          /\ lastOp' = Op("response", "cartCreate", response, run, "none")
    /\ storage' = IF HasCart(response) THEN response.cart.id ELSE storage
    /\ UNCHANGED <<ctx, didFetchCart, effectPending, redVars>>

\* A mutation wrapper up to its await (addLineItem, lines 324-338, and its
\* six siblings), called through the context value with the state that value
\* captured (lines 607-629).
\* When the captured status is not idle the wrapper does nothing at all, so
\* only calls that pass the test of line 325 are steps.
gate(state_) == state_.status = "idle"

mutationCall(action) ==
    /\ Rendered
    /\ UserCallsInFlight < MaxInFlight
    /\ gate(ctx)
    /\ LET run == dispatch(Begin(state), action)
       IN /\ state' = run.state
          /\ lastOp' = Op("call", action.type, NoResponse, run, callbackOf(action.type))
    /\ inflight' = [inflight EXCEPT !["mutation"] = @ + 1]
    /\ UNCHANGED <<ctx, storage, didFetchCart, effectPending, redVars>>

\* A mutation wrapper after its await (addLineItem, lines 340-352, and its
\* six siblings).
mutationResponse(response) ==
    /\ inflight["mutation"] > 0
    /\ inflight' = [inflight EXCEPT !["mutation"] = @ - 1]
    /\ LET run == resolveIfCart(rejectIfError(Begin(state), response), response)
       IN /\ state' = run.state
          /\ lastOp' = Op("response", "mutation", response, run, "none")
    /\ UNCHANGED <<ctx, storage, didFetchCart, effectPending, redVars>>

\* cartContextValue, lines 595-605: the cart fields of the state (no lines
\* when the state has no cart; the cart prop is attached to the state whenever
\* it is given), the status, and the error of the state, the undefined error
\* when the state has none.
cartContextValue(state_) ==
    IF "cart" \in DOMAIN state_
    THEN [id |-> state_.cart.id, lines |-> state_.cart.lines, note |-> state_.cart.note,
          status |-> state_.status,
          error |-> IF "error" \in DOMAIN state_ THEN state_.error ELSE NoError]
    ELSE [lines |-> <<>>,
          status |-> state_.status,
          error |-> IF "error" \in DOMAIN state_ THEN state_.error ELSE NoError]

Next ==
    \/ Render
    \/ Effect
    \/ cartCreateCall
    \/ \E action \in PlainMutationActions : mutationCall(action)
    \/ \E action \in RemoveActionsOf(LineIds, MaxServerLines) : mutationCall(action)
    \/ \E action \in UpdateActionsOf(ServerLineIds, MaxServerLines) : mutationCall(action)
    \/ \E response \in Responses : cartFetchResponse(response)
    \/ \E response \in Responses : cartCreateResponse(response)
    \/ \E response \in Responses : mutationResponse(response)

Spec == Init /\ [][Next]_vars

----------------------------------------------------------------------------
(* ReducerSpec: cartReducer applied once to each (state, action) pair *)

\* The states with a lastValidCart: those a mutating action makes of an idle
\* state.
UpdatingStates(n) ==
    LET idle == {s \in SettledStates(n) : s.status = "idle"}
    IN {case_noOptimisticUpdate(s, a) : s \in idle, a \in PlainMutationActions}
       \cup {case_removeLineItem(s, a) : s \in idle, a \in RemoveActions}
       \cup {case_updateLineItem(s, a) : s \in idle, a \in UpdateActions}

States(n) == SettledStates(n) \cup UpdatingStates(n)

ReducerInit ==
    /\ rin \in States(MaxLines)
    /\ ract = NoAction
    /\ rout = NoOutcome
    /\ state = [status |-> "uninitialized"]
    /\ ctx = [status |-> "unrendered"]
    /\ inflight = [k \in OpKinds |-> 0]
    /\ storage = NoItem
    /\ didFetchCart = FALSE
    /\ effectPending = FALSE
    /\ lastOp = Op("none", "none", NoResponse, Begin(state), "none")

Apply(action) ==
    /\ ract' = action
    /\ rout' = cartReducer(rin, action)
    /\ UNCHANGED <<rin, provVars>>

\* The function is applied once to the drawn state.
ReducerNext ==
    /\ ract = NoAction
    /\ \/ \E action \in OtherActions(MaxLines) : Apply(action)
       \/ \E action \in RemoveActions : Apply(action)
       \/ \E action \in UpdateActions : Apply(action)

ReducerSpec == ReducerInit /\ [][ReducerNext]_vars

----------------------------------------------------------------------------
(* The accepted transitions, as the documentation of the reducer lists them *)

TableStatus(status, type) ==
    CASE type = "cartFetch" /\ status = "uninitialized" -> "fetching"
      [] type = "cartCreate" /\ status = "uninitialized" -> "creating"
      [] type = "resolve" /\ status \in {"updating", "fetching", "creating"} -> "idle"
      [] type = "reject" /\ status \in {"fetching", "creating"} -> "uninitialized"
      [] type = "reject" /\ status = "updating" -> "idle"
      [] type = "resetCart" /\ status = "fetching" -> "uninitialized"
      [] type \in MutationTypes /\ status = "idle" -> "updating"
      [] OTHER -> "throws"

Applied == ract.type # "none"

\* C1: for each of the 5 x 12 (status, action type) pairs cartReducer gives
\* what the transition table gives: the table's status for an accepted pair,
\* an error for every other pair.
C1_TransitionTable ==
    Applied =>
        LET expected == TableStatus(rin.status, ract.type)
        IN IF expected = "throws"
           THEN Threw(rout)
           ELSE ~Threw(rout) /\ rout.status = expected

C1_Witness ==
    /\ Applied
    /\ rin.status = "updating"
    /\ ract.type = "reject"
    /\ ~Threw(rout)
    /\ rout.status = "idle"

\* C2: for a pair outside the table cartReducer returns no state and throws
\* an error whose message names the action type and the current status.
C2_InvalidPairThrows ==
    (Applied /\ TableStatus(rin.status, ract.type) = "throws") =>
        rout = [throws |-> <<"Cannot dispatch event (", ract.type,
                             ") for current cart state (", rin.status, ")">>]

C2_Witness ==
    /\ Applied
    /\ rin.status = "idle"
    /\ ract.type = "resolve"
    /\ Threw(rout)

\* C4: from an idle state with cart c, a mutating start action followed by
\* reject(e) gives status idle with cart exactly c and error e, also after an
\* optimistic removal or update.
C4_Rollback ==
    (Applied /\ rin.status = "idle" /\ ract.type \in MutationTypes) =>
        /\ ~Threw(rout)
        /\ \A e \in Errors :
              cartReducer(rout, [type |-> "reject", error |-> e])
                = [status |-> "idle", cart |-> rin.cart, error |-> e]

C4_Witness ==
    /\ Applied
    /\ rin.status = "idle"
    /\ ract.type = "removeLineItem"
    /\ ~Threw(rout)
    /\ rout.cart # rin.cart

\* C6: a resolve accepted in status updating, fetching or creating gives
\* exactly {status: idle, cart: the action's cart}: no error, no
\* lastValidCart, nothing of the optimistic cart.
C6_ResolveReplaces ==
    (Applied /\ ract.type = "resolve"
       /\ rin.status \in {"updating", "fetching", "creating"}) =>
        rout = [status |-> "idle", cart |-> ract.cart]

C6_Witness ==
    /\ Applied
    /\ ract.type = "resolve"
    /\ rin.status = "updating"
    /\ rin.cart # rin.lastValidCart
    /\ ract.cart # rin.cart
    /\ ~Threw(rout)
    /\ rout.status = "idle"

----------------------------------------------------------------------------
(* The provider *)

IsFailure == lastOp.op = "response" /\ lastOp.error # NoError

\* C3: handling a response that carries an error, in cartCreate or a
\* mutation wrapper, dispatches only actions the reducer accepts and leaves
\* the error attached to the state; after a failed mutation the cart is the
\* last valid cart.
C3_FailureNeverThrows ==
    [][(IsFailure' /\ lastOp'.kind \in {"cartCreate", "mutation"}) =>
          /\ lastOp'.thrown = <<>>
          /\ "error" \in DOMAIN state'
          /\ state'.error = lastOp'.error
          /\ (lastOp'.kind = "mutation" /\ state.status = "updating") =>
                (state'.status = "idle" /\ state'.cart = state.lastValidCart)]_vars

\* C5: the state enters status updating from idle with lastValidCart equal
\* to the idle state's cart, and lastValidCart does not change while the
\* status stays updating.
C5_LastValidCart ==
    [][state'.status = "updating" =>
          IF state.status = "idle"
          THEN state'.lastValidCart = state.cart
          ELSE state.status = "updating"
               /\ state'.lastValidCart = state.lastValidCart]_vars

C5_Witness ==
    /\ state.status = "updating"
    /\ lastOp.op = "call"
    /\ lastOp.kind = "removeLineItem"
    /\ state.cart # state.lastValidCart

\* C7: a callback prop is invoked only by the handling of a successful
\* response of its operation (no error, a cart), never before the response
\* and never for a remote call that fails.
C7_CallbackAfterSuccess ==
    lastOp.callback # "none" =>
        /\ lastOp.op = "response"
        /\ lastOp.error = NoError
        /\ lastOp.cartId # 0

AllowedEntry(from, to) ==
    CASE to \in {"fetching", "creating"} -> from = "uninitialized"
      [] to = "updating" -> from = "idle"
      [] to = "idle" -> from \in {"fetching", "creating", "updating"}
      [] to = "uninitialized" -> from \in {"fetching", "creating"}
      [] OTHER -> FALSE

\* C8: the provider starts uninitialized (idle with a cart prop) and every
\* change of status, dispatch by dispatch, follows the lifecycle:
\* fetching and creating are entered from uninitialized, updating from idle,
\* idle from fetching, creating or updating, uninitialized from fetching or
\* creating.
C8_Lifecycle ==
    /\ state.status \in {"uninitialized", "idle"}
    /\ [][LET path == lastOp'.path
          IN /\ path[1] = state.status
             /\ path[Len(path)] = state'.status
             /\ \A i \in 1..(Len(path) - 1) :
                   path[i] # path[i + 1] => AllowedEntry(path[i], path[i + 1])]_vars

C8_Witness ==
    /\ lastOp.op = "response"
    /\ lastOp.kind = "cartCreate"
    /\ lastOp.path = <<"creating", "uninitialized">>
    /\ state.status = "uninitialized"

\* C10: a cartCreate response with a cart stores that cart's id; a cartFetch
\* response without a cart removes the key and leaves status uninitialized
\* with no error; no other step writes or removes the key.
C10_Storage ==
    [][LET response == lastOp'.op = "response"
       IN /\ (response /\ lastOp'.kind = "cartCreate" /\ lastOp'.cartId # 0) =>
                storage' = lastOp'.cartId
          /\ (response /\ lastOp'.kind = "cartFetch" /\ lastOp'.cartId = 0) =>
                (storage' = NoItem /\ state' = [status |-> "uninitialized"])
          /\ ~(response /\ lastOp'.kind = "cartCreate" /\ lastOp'.cartId # 0)
               /\ ~(response /\ lastOp'.kind = "cartFetch" /\ lastOp'.cartId = 0)
               => storage' = storage]_vars

----------------------------------------------------------------------------
(* The optimistic changes of the reducer *)

IdleApplied(type) ==
    Applied /\ rin.status = "idle" /\ ract.type = type /\ ~Threw(rout)

ArgIds == {ract.lines[j] : j \in DOMAIN ract.lines}

KeptLine(line) == line.id \notin ArgIds

\* C13: removeLineItem accepted in idle with cart c and id list L gives an
\* updating state whose cart has exactly the lines of c whose id is not in
\* L, in their order in c, and the id and note of c.
C13_OptimisticRemoval ==
    (Applied /\ rin.status = "idle" /\ ract.type = "removeLineItem") =>
        /\ ~Threw(rout)
        /\ rout.status = "updating"
        /\ rout.cart.lines = SelectSeq(rin.cart.lines, KeptLine)
        /\ rout.cart.id = rin.cart.id
        /\ rout.cart.note = rin.cart.note
        /\ DOMAIN rout.cart = DOMAIN rin.cart

C13_Witness ==
    /\ IdleApplied("removeLineItem")
    /\ Len(rin.cart.lines) = 2
    /\ rin.cart.lines[1].id # rin.cart.lines[2].id
    /\ Len(ract.lines) = 2
    /\ rout.cart.lines = <<rin.cart.lines[2]>>

\* The first entry of the update list with the id of the line, 0 if none.
FirstEntry(id) ==
    LET matches == {j \in DOMAIN ract.lines : ract.lines[j].id = id}
    IN IF matches = {} THEN 0
       ELSE CHOOSE j \in matches : \A k \in matches : j <= k

\* C14: updateLineItem accepted in idle with cart c and update list U gives
\* an updating state whose cart has the lines of c, same ids, same order; a
\* line takes the quantity of the first entry of U with its id when that
\* quantity is neither 0 nor absent, and is unchanged otherwise.
C14_OptimisticUpdate ==
    (Applied /\ rin.status = "idle" /\ ract.type = "updateLineItem") =>
        /\ ~Threw(rout)
        /\ rout.status = "updating"
        /\ Len(rout.cart.lines) = Len(rin.cart.lines)
        /\ rout.cart.id = rin.cart.id
        /\ rout.cart.note = rin.cart.note
        /\ \A i \in DOMAIN rin.cart.lines :
              LET line == rin.cart.lines[i]
                  first == FirstEntry(line.id)
              IN /\ rout.cart.lines[i].id = line.id
                 /\ rout.cart.lines[i].quantity =
                      IF first # 0 /\ ract.lines[first].quantity \notin {0, UndefQty}
                      THEN ract.lines[first].quantity
                      ELSE line.quantity

C14_Witness ==
    /\ IdleApplied("updateLineItem")
    /\ Len(rin.cart.lines) = 2
    /\ Len(ract.lines) = 2
    /\ ract.lines[1].id = ract.lines[2].id
    /\ ract.lines[1].id = rin.cart.lines[1].id
    /\ ract.lines[1].quantity \notin {0, UndefQty, rin.cart.lines[1].quantity}
    /\ ract.lines[2].quantity \notin {0, UndefQty, ract.lines[1].quantity}
    /\ rout.cart.lines[1].quantity = ract.lines[1].quantity
    /\ rout.cart.lines[2] = rin.cart.lines[2]

NoOptimisticTypes ==
    {"addLineItem", "noteUpdate", "buyerIdentityUpdate", "cartAttributesUpdate",
     "discountCodesUpdate"}

\* C15: addLineItem, noteUpdate, buyerIdentityUpdate, cartAttributesUpdate
\* and discountCodesUpdate accepted in idle give an updating state whose cart
\* and lastValidCart both equal the idle state's cart.
C15_NoOptimisticChange ==
    (Applied /\ rin.status = "idle" /\ ract.type \in NoOptimisticTypes) =>
        rout = [status |-> "updating", cart |-> rin.cart, lastValidCart |-> rin.cart]

C15_Witness ==
    /\ IdleApplied("discountCodesUpdate")
    /\ Len(rin.cart.lines) = 2
    /\ rout.cart.lines = rin.cart.lines

----------------------------------------------------------------------------
(* The provider: termination, gating, shape of the state, errors, the
   automatic fetch *)

Transient == {"updating", "fetching", "creating"}

NothingInFlight == \A kind \in OpKinds : inflight[kind] = 0

\* C11: no operation leaves the cart in a transient status: once the remote
\* call of an operation has completed and its handler has run, with no other
\* call in flight, the status is idle or uninitialized.
C11_NoStuckStatus ==
    (lastOp.op = "response" /\ NothingInFlight) => state.status \notin Transient

\* C12: a mutating start action is dispatched only while the reducer's
\* status is idle, so the reducer never throws on it, and at most one remote
\* mutation is in flight.
C12_GatedOnIdle ==
    (lastOp.op = "call" /\ lastOp.kind \in MutationTypes) =>
        /\ lastOp.path[1] = "idle"
        /\ lastOp.thrown = <<>>
        /\ inflight["mutation"] <= 1

\* C16: in every reachable state a cart is attached exactly when the status
\* is idle or updating, lastValidCart exactly when it is updating, and an
\* error only when it is idle or uninitialized.
C16_StateShape ==
    /\ "cart" \in DOMAIN state <=> state.status \in {"idle", "updating"}
    /\ "lastValidCart" \in DOMAIN state <=> state.status = "updating"
    /\ "error" \in DOMAIN state => state.status \in {"idle", "uninitialized"}

C16_Witness ==
    /\ lastOp.op = "response"
    /\ lastOp.kind = "mutation"
    /\ lastOp.path = <<"updating", "idle">>
    /\ "error" \in DOMAIN state
    /\ "cart" \in DOMAIN state

\* The types of the actions a handler dispatched and the reducer accepted
\* (a handler dispatches an action type at most once).
Accepted(op) ==
    LET accepted(type) == ~\E k \in DOMAIN op.thrown : op.thrown[k][2] = type
    IN SelectSeq(op.dispatched, accepted)

\* C17: the state carries an error only when the most recent accepted action
\* was a reject, and the error is that reject's; a state made by any other
\* accepted action has no error, and the context value of such a state
\* exposes the undefined error.
C17_ErrorUntilNextAction ==
    /\ "error" \notin DOMAIN state
    /\ [][LET accepted == Accepted(lastOp')
          IN IF accepted = <<>>
             THEN state' = state
             ELSE IF accepted[Len(accepted)] = "reject"
                  THEN /\ "error" \in DOMAIN state'
                       /\ state'.error = lastOp'.error
                       /\ cartContextValue(state').error = lastOp'.error
                  ELSE /\ "error" \notin DOMAIN state'
                       /\ cartContextValue(state').error = NoError]_vars

C17_Witness ==
    /\ ctx.status = "idle"
    /\ "error" \in DOMAIN ctx
    /\ cartContextValue(ctx).error # NoError
    /\ lastOp.op = "call"
    /\ lastOp.path = <<"idle", "updating">>
    /\ state.lastValidCart = ctx.cart
    /\ cartContextValue(state).error = NoError

\* C18: a reject accepted in status fetching or creating gives the state
\* uninitialized with the reject's error and no cart, and cartCreate is
\* accepted from that state.
C18_FailedCreateRetry ==
    [][(/\ lastOp'.op = "response"
        /\ lastOp'.error # NoError
        /\ lastOp'.dispatched # <<>>
        /\ lastOp'.dispatched[1] = "reject"
        /\ state.status \in {"fetching", "creating"})
       => /\ state' = [status |-> "uninitialized", error |-> lastOp'.error]
          /\ cartReducer(state', [type |-> "cartCreate"]) = [status |-> "creating"]]_vars

C18_Witness ==
    /\ lastOp.op = "response"
    /\ lastOp.kind = "cartCreate"
    /\ lastOp.error # NoError
    /\ lastOp.cartId = NoFragment.id
    /\ lastOp.path = <<"creating", "uninitialized">>
    /\ state = [status |-> "uninitialized", error |-> lastOp.error]

AutoFetchStarted == lastOp.op = "effect" /\ lastOp.kind = "cartFetch"

DispatchStatus(kind, type) ==
    CASE type = "cartFetch" -> "uninitialized"
      [] type = "cartCreate" -> "uninitialized"
      [] type = "resetCart" -> "fetching"
      [] type = "reject" -> "creating"
      [] type = "resolve" -> IF kind = "cartFetch" THEN "fetching" ELSE "creating"

\* C20: cartFetch and cartCreate never dispatch an action the reducer
\* rejects: cartFetch dispatches resetCart or resolve in status fetching,
\* cartCreate dispatches cartCreate in status uninitialized and reject or
\* resolve in status creating.
C20_NoRejectedDispatch ==
    lastOp.kind \in {"cartFetch", "cartCreate"} =>
        /\ lastOp.thrown = <<>>
        /\ \A i \in DOMAIN lastOp.dispatched :
              lastOp.path[i] = DispatchStatus(lastOp.kind, lastOp.dispatched[i])

====
